---- MODULE Spec2Model ----
(***************************************************************************)
(* Transaction authorization of ironcoin (src/src/tx.rs): the              *)
(* TransactionBuilder (add_transfer, set_bounty, build) and                *)
(* TransactionExt::verify_signatures.                                      *)
(*                                                                         *)
(* Byte strings are sequences.  The bytes of the public key of key pair k  *)
(* are the one-element sequence <<k>>; a byte string that is not of that   *)
(* shape has the wrong length for a key.  Option<T> is a sequence of       *)
(* length 0 (None) or 1 (Some).  IroncResult is <<"Ok">> or <<"Err">>      *)
(* followed by the contents of the error.                                  *)
(***************************************************************************)
EXTENDS Integers, Sequences, FiniteSets, TLC

VARIABLES
    transfer_secret_keys,  \* TransactionBuilder.transfer_secret_keys
    bounty_secret_key,     \* TransactionBuilder.bounty_secret_key
    commit,                \* TransactionBuilder.commit
    op_index_args,         \* the op_index argument of every add_transfer call
    last_set_bounty,       \* the (source, bounty) arguments of the last set_bounty call
    build_result,          \* what build returned: NotBuilt, Ok or Err
    transaction,           \* the Transaction a caller holds, if any
    verify_result          \* what verify_signatures returned on it

vars == <<transfer_secret_keys, bounty_secret_key, commit, op_index_args,
          last_set_bounty, build_result, transaction, verify_result>>

----------------------------------------------------------------------------
(* Bounds and input domains *)

MaxTransfers == 2
MaxBountyCalls == 2
MaxSignatures == 2

Accounts == {1, 2}
Destinations == Accounts
OpIndices == {0, 1}
TokenAmounts == {1}
BountyAmounts == {1, 2}

SeqUpTo(S, n) == UNION {[1..k -> S] : k \in 0..n}

----------------------------------------------------------------------------
(* Results and errors *)

Ok == <<"Ok">>
IroncError(msg) == <<msg>>
Err(error) == <<"Err">> \o error
NotBuilt == <<"NotBuilt">>
NotRun == <<"NotRun">>

MissingKey == IroncError("Missing key.")
InvalidKeyForSource == IroncError("Invalid key for source account.")
KeyDecodeError == IroncError("KeyDecodeError")
InvalidSignature == IroncError("InvalidSignature")

----------------------------------------------------------------------------
(* The signature primitive (crate crypto) *)

PublicKeyBytes(k) == <<k>>

PublicKey_from_slice(bytes) ==
    IF \E k \in Accounts : bytes = PublicKeyBytes(k) THEN Ok ELSE Err(KeyDecodeError)

sign(secret_key, message) ==
    [signer |-> secret_key, msg |-> message, wellformed |-> TRUE]

Signature_from_slice(payload) ==
    IF payload.wellformed THEN Ok ELSE Err(KeyDecodeError)

verify_signature(public_key, message, signature) ==
    IF public_key = PublicKeyBytes(signature.signer) /\ signature.msg = message
    THEN Ok ELSE Err(InvalidSignature)

----------------------------------------------------------------------------
(* Serialization of the commitment (protobuf, field-tagged) *)

Varint(tag, value) == <<tag, value>>
LengthDelimited(tag, bytes) == <<tag, Len(bytes)>> \o bytes

TransferBytes(t) ==
    Varint(1, t.op_index) \o Varint(2, t.tokens)
        \o LengthDelimited(3, t.source_pk) \o LengthDelimited(4, t.destination_pk)

RECURSIVE TransfersBytes(_)
TransfersBytes(ts) ==
    IF ts = <<>> THEN <<>>
    ELSE LengthDelimited(1, TransferBytes(Head(ts))) \o TransfersBytes(Tail(ts))

write_to_bytes(c) ==
    TransfersBytes(c.transfers)
        \o (IF c.bounty_pk = <<>> THEN <<>> ELSE LengthDelimited(2, c.bounty_pk))
        \o (IF c.bounty = <<>> THEN <<>> ELSE Varint(3, c.bounty[1]))

----------------------------------------------------------------------------
(* TransactionExt::verify_signatures *)

sign_map(signatures) ==
    [pk \in {signatures[i].public_key : i \in DOMAIN signatures} |->
        LET last == CHOOSE i \in DOMAIN signatures :
                        /\ signatures[i].public_key = pk
                        /\ \A j \in DOMAIN signatures :
                               signatures[j].public_key = pk => j <= i
        IN  signatures[last].payload]

check_transfer_no_verify(transfer, map, commit_bytes) ==
    IF transfer.source_pk \in DOMAIN map
    THEN IF PublicKey_from_slice(transfer.source_pk) # Ok
         THEN PublicKey_from_slice(transfer.source_pk)
         ELSE Signature_from_slice(map[transfer.source_pk])
    ELSE Err(MissingKey)

check_transfer_skip_missing(transfer, map, commit_bytes) ==
    IF transfer.source_pk \in DOMAIN map
    THEN IF PublicKey_from_slice(transfer.source_pk) # Ok
         THEN PublicKey_from_slice(transfer.source_pk)
         ELSE IF Signature_from_slice(map[transfer.source_pk]) # Ok
         THEN Signature_from_slice(map[transfer.source_pk])
         ELSE verify_signature(transfer.source_pk, commit_bytes,
                               map[transfer.source_pk])
    ELSE Ok

check_transfer(transfer, map, commit_bytes) ==
    IF transfer.source_pk \in DOMAIN map
    THEN IF PublicKey_from_slice(transfer.source_pk) # Ok
         THEN PublicKey_from_slice(transfer.source_pk)
         ELSE IF Signature_from_slice(map[transfer.source_pk]) # Ok
         THEN Signature_from_slice(map[transfer.source_pk])
         ELSE verify_signature(transfer.source_pk, commit_bytes,
                               map[transfer.source_pk])
    ELSE Err(MissingKey)

RECURSIVE check_transfers(_, _, _)
check_transfers(transfers, map, commit_bytes) ==
    IF transfers = <<>> THEN Ok
    ELSE IF check_transfer(Head(transfers), map, commit_bytes) # Ok
    THEN check_transfer(Head(transfers), map, commit_bytes)
    ELSE check_transfers(Tail(transfers), map, commit_bytes)

verify_signatures_bounty_signer(tx) ==
    IF check_transfers(tx.commit.transfers, sign_map(tx.signatures),
                       write_to_bytes(tx.commit)) # Ok
    THEN check_transfers(tx.commit.transfers, sign_map(tx.signatures),
                         write_to_bytes(tx.commit))
    ELSE IF tx.commit.bounty_pk = <<>> THEN Ok
    ELSE check_transfer([source_pk |-> tx.commit.bounty_pk],
                        sign_map(tx.signatures), write_to_bytes(tx.commit))

verify_signatures(tx) ==
    check_transfers(tx.commit.transfers, sign_map(tx.signatures),
                    write_to_bytes(tx.commit))

----------------------------------------------------------------------------
(* TransactionBuilder *)

Commitment_new == [transfers |-> <<>>, bounty_pk |-> <<>>, bounty |-> <<>>]

new_transfer_zero_index(source, destination, tokens, op_index) ==
    [op_index |-> 0, tokens |-> tokens,
     source_pk |-> <<>> \o PublicKeyBytes(source),
     destination_pk |-> <<>> \o PublicKeyBytes(destination)]

new_transfer(source, destination, tokens, op_index) ==
    [op_index |-> op_index, tokens |-> tokens,
     source_pk |-> <<>> \o PublicKeyBytes(source),
     destination_pk |-> <<>> \o PublicKeyBytes(destination)]

DetachedSignature(public_key, payload) ==
    [public_key |-> public_key, payload |-> payload]

(* One iteration of the loop of build: the result and the signatures pushed. *)
build_step_signs_transfer(transfer, secret_key, commit_bytes) ==
    IF PublicKey_from_slice(transfer.source_pk) # Ok
    THEN [result |-> PublicKey_from_slice(transfer.source_pk), pushed |-> <<>>]
    ELSE IF verify_signature(transfer.source_pk, TransferBytes(transfer),
                             sign(secret_key, TransferBytes(transfer))) = Ok
    THEN [result |-> Ok,
          pushed |-> <<DetachedSignature(transfer.source_pk,
                                         sign(secret_key, TransferBytes(transfer)))>>]
    ELSE [result |-> Err(InvalidKeyForSource), pushed |-> <<>>]

build_step_unchecked(transfer, secret_key, commit_bytes) ==
    IF PublicKey_from_slice(transfer.source_pk) # Ok
    THEN [result |-> PublicKey_from_slice(transfer.source_pk), pushed |-> <<>>]
    ELSE [result |-> Ok,
          pushed |-> <<DetachedSignature(transfer.source_pk,
                                         sign(secret_key, commit_bytes))>>]

build_step(transfer, secret_key, commit_bytes) ==
    IF PublicKey_from_slice(transfer.source_pk) # Ok
    THEN [result |-> PublicKey_from_slice(transfer.source_pk), pushed |-> <<>>]
    ELSE IF verify_signature(transfer.source_pk, commit_bytes,
                             sign(secret_key, commit_bytes)) = Ok
    THEN [result |-> Ok,
          pushed |-> <<DetachedSignature(transfer.source_pk,
                                         sign(secret_key, commit_bytes))>>]
    ELSE [result |-> Err(InvalidKeyForSource), pushed |-> <<>>]

(* The loop of build over zip(transfers, secret_keys): the first error, or *)
(* Ok and the signatures in the order pushed.                              *)
RECURSIVE build_loop(_, _, _)
build_loop(transfers, secret_keys, commit_bytes) ==
    IF transfers = <<>> \/ secret_keys = <<>>
    THEN [result |-> Ok, signatures |-> <<>>]
    ELSE LET step == build_step(Head(transfers), Head(secret_keys), commit_bytes)
             rest == build_loop(Tail(transfers), Tail(secret_keys), commit_bytes)
         IN  IF step.result # Ok
             THEN [result |-> step.result, signatures |-> <<>>]
             ELSE IF rest.result # Ok
             THEN rest
             ELSE [result |-> Ok, signatures |-> step.pushed \o rest.signatures]

(* build: the result and the Option<Transaction> handed to the caller. *)
build_of(c, secret_keys) ==
    LET loop == build_loop(c.transfers, secret_keys, write_to_bytes(c))
        tx == [commit |-> c, signatures |-> loop.signatures]
    IN  IF loop.result # Ok
        THEN [result |-> loop.result, transaction |-> <<>>]
        ELSE IF verify_signatures(tx) # Ok
        THEN [result |-> verify_signatures(tx), transaction |-> <<>>]
        ELSE [result |-> Ok, transaction |-> <<tx>>]

----------------------------------------------------------------------------
(* The builder, from construction to the verification of what it built *)

Init ==
    /\ transfer_secret_keys = <<>>
    /\ bounty_secret_key = <<>>
    /\ commit = Commitment_new
    /\ op_index_args = <<>>
    /\ last_set_bounty = <<>>
    /\ build_result = NotBuilt
    /\ transaction = <<>>
    /\ verify_result = NotRun

add_transfer ==
    /\ build_result = NotBuilt
    /\ Len(commit.transfers) < MaxTransfers
    /\ \E sk \in Accounts, source \in Accounts, destination \in Destinations,
          tokens \in TokenAmounts, op_index \in OpIndices :
          /\ transfer_secret_keys' = Append(transfer_secret_keys, sk)
          /\ commit' = [commit EXCEPT !.transfers =
                 Append(@, new_transfer(source, destination, tokens, op_index))]
          /\ op_index_args' = Append(op_index_args, op_index)
    /\ UNCHANGED <<bounty_secret_key, last_set_bounty, build_result,
                   transaction, verify_result>>

set_bounty ==
    /\ build_result = NotBuilt
    /\ Len(commit.bounty_pk) < MaxBountyCalls
    /\ \E sk \in Accounts, source \in Accounts, bounty \in BountyAmounts :
          /\ bounty_secret_key' = <<sk>>
          /\ commit' = [commit EXCEPT !.bounty_pk = @ \o PublicKeyBytes(source),
                                      !.bounty = <<bounty>>]
          /\ last_set_bounty' = <<[source |-> source, bounty |-> bounty]>>
    /\ UNCHANGED <<transfer_secret_keys, op_index_args, build_result,
                   transaction, verify_result>>

build ==
    /\ build_result = NotBuilt
    /\ build_result' = build_of(commit, transfer_secret_keys).result
    /\ transaction' = build_of(commit, transfer_secret_keys).transaction
    /\ UNCHANGED <<transfer_secret_keys, bounty_secret_key, commit,
                   op_index_args, last_set_bounty, verify_result>>

verify ==
    /\ transaction # <<>>
    /\ verify_result = NotRun
    /\ verify_result' = verify_signatures(transaction[1])
    /\ UNCHANGED <<transfer_secret_keys, bounty_secret_key, commit,
                   op_index_args, last_set_bounty, build_result, transaction>>

Next == add_transfer \/ set_bounty \/ build \/ verify

Spec == Init /\ [][Next]_vars

----------------------------------------------------------------------------
(* verify_signatures on any transaction a receiver can be handed *)

KeyByteStrings == {PublicKeyBytes(k) : k \in Accounts} \cup {<<1, 2>>}
StaleBytes == <<0>>
MalformedPayload == [signer |-> 1, msg |-> StaleBytes, wellformed |-> FALSE]

AnyTransfers ==
    [op_index : {0}, tokens : {1}, source_pk : KeyByteStrings,
     destination_pk : {PublicKeyBytes(2)}]

AnyCommitments ==
    {[transfers |-> ts, bounty_pk |-> b.pk, bounty |-> b.amount] :
        ts \in SeqUpTo(AnyTransfers, MaxTransfers),
        b \in {[pk |-> <<>>, amount |-> <<>>],
               [pk |-> PublicKeyBytes(1), amount |-> <<1>>]}}

AnyPayloads(c) ==
    {sign(k, write_to_bytes(c)) : k \in Accounts}
        \cup {sign(1, StaleBytes), MalformedPayload}

AnySignatures(c) ==
    SeqUpTo([public_key : KeyByteStrings, payload : AnyPayloads(c)], MaxSignatures)

InitV ==
    /\ transfer_secret_keys = <<>>
    /\ bounty_secret_key = <<>>
    /\ commit = Commitment_new
    /\ op_index_args = <<>>
    /\ last_set_bounty = <<>>
    /\ build_result = NotBuilt
    /\ \E c \in AnyCommitments :
           \E sigs \in AnySignatures(c) :
               transaction = <<[commit |-> c, signatures |-> sigs]>>
    /\ verify_result = NotRun

NextV == verify

SpecV == InitV /\ [][NextV]_vars

----------------------------------------------------------------------------
(* Properties of the builder (checked under Spec) *)

Built == build_result # NotBuilt
BuiltOk == build_result = Ok /\ transaction # <<>>
NumTransfers == Len(commit.transfers)

(* The secret key pushed with the i-th transfer is the partner of its source. *)
KeyMatches(i) ==
    PublicKeyBytes(transfer_secret_keys[i]) = commit.transfers[i].source_pk
AllTransferKeysMatch == \A i \in 1..NumTransfers : KeyMatches(i)
BountyKeyMatches ==
    /\ last_set_bounty # <<>>
    /\ PublicKeyBytes(bounty_secret_key[1]) = PublicKeyBytes(last_set_bounty[1].source)
SourceKeys(c) == {c.transfers[i].source_pk : i \in DOMAIN c.transfers}

(* C1: a transaction built from N transfers over K distinct source keys,   *)
(* each with its matching secret key, holds exactly K signatures.          *)
C1_SignaturePerDistinctSource ==
    (BuiltOk /\ AllTransferKeysMatch) =>
        Len(transaction[1].signatures) = Cardinality(SourceKeys(commit))

(* C2: when every supplied secret key is the partner of the public key     *)
(* passed with it, build returns Ok with a transaction, and                *)
(* verify_signatures on that transaction returns Ok; build never returns a *)
(* transaction on which verify_signatures fails.                           *)
C2_BuildThenVerifySucceeds ==
    /\ (Built /\ AllTransferKeysMatch /\ (last_set_bounty = <<>> \/ BountyKeyMatches))
           => (BuiltOk /\ verify_signatures(transaction[1]) = Ok)
    /\ transaction # <<>> => verify_signatures(transaction[1]) = Ok
    /\ verify_result # NotRun => verify_result = Ok

C2_Witness ==
    /\ BuiltOk
    /\ NumTransfers = 2
    /\ commit.transfers[1].source_pk # commit.transfers[2].source_pk
    /\ AllTransferKeysMatch
    /\ BountyKeyMatches
    /\ verify_result = Ok

(* The source account of the first transfer whose secret key does not match. *)
Offender ==
    LET i == CHOOSE i \in 1..NumTransfers :
                 ~KeyMatches(i) /\ \A j \in 1..(i - 1) : KeyMatches(j)
    IN  commit.transfers[i].source_pk

C5_SequentialOpIndex ==
    \A i \in 1..(NumTransfers - 1) :
        commit.transfers[i + 1].op_index = commit.transfers[i].op_index + 1

(* C5 amended: the i-th transfer of the commitment (in insertion order)    *)
(* carries the op_index the caller passed to the i-th add_transfer call,   *)
(* and so does the commitment of the built transaction.                    *)
C5_OpIndexIsCallersArgument ==
    /\ NumTransfers = Len(op_index_args)
    /\ \A i \in 1..NumTransfers : commit.transfers[i].op_index = op_index_args[i]
    /\ BuiltOk => transaction[1].commit.transfers = commit.transfers

C5_Witness ==
    /\ BuiltOk
    /\ op_index_args = <<1, 1>>
    /\ transaction[1].commit.transfers[1].op_index = 1
    /\ transaction[1].commit.transfers[2].op_index = 1

(* C6: when set_bounty was called with a matching key pair and build       *)
(* succeeds, the transaction holds a signature of the bounty payer's key   *)
(* that is valid for the commitment bytes.                                 *)
C6_BountyPayerSigns ==
    (BuiltOk /\ BountyKeyMatches) =>
        \E i \in DOMAIN transaction[1].signatures :
            /\ transaction[1].signatures[i].public_key
                   = PublicKeyBytes(last_set_bounty[1].source)
            /\ verify_signature(PublicKeyBytes(last_set_bounty[1].source),
                                write_to_bytes(transaction[1].commit),
                                transaction[1].signatures[i].payload) = Ok

(* C10: after set_bounty calls, bounty_pk is the public key of the most    *)
(* recent call alone and bounty its amount; set_bounty leaves the          *)
(* transfers and their secret keys unchanged.                              *)
C10_SingleBountyPayer ==
    /\ [](last_set_bounty # <<>> =>
            /\ commit.bounty_pk = PublicKeyBytes(last_set_bounty[1].source)
            /\ commit.bounty = <<last_set_bounty[1].bounty>>)
    /\ [][commit'.bounty_pk # commit.bounty_pk =>
            /\ commit'.transfers = commit.transfers
            /\ transfer_secret_keys' = transfer_secret_keys]_vars

----------------------------------------------------------------------------
(* Changes of the commitment of a built transaction (checked under Spec) *)

ReplaceTransfer(c, i, t) == [c EXCEPT !.transfers[i] = t]
RemoveTransfer(c, i) ==
    [c EXCEPT !.transfers = SubSeq(@, 1, i - 1) \o SubSeq(@, i + 1, Len(@))]

(* Every commitment that differs from c in one part: a field of one        *)
(* transfer, the transfer list, bounty_pk or bounty.                       *)
MutatedCommitments(c) ==
    (   {ReplaceTransfer(c, i, [c.transfers[i] EXCEPT !.op_index = v]) :
            i \in DOMAIN c.transfers, v \in OpIndices \cup {2}}
     \cup {ReplaceTransfer(c, i, [c.transfers[i] EXCEPT !.tokens = v]) :
            i \in DOMAIN c.transfers, v \in TokenAmounts \cup {2}}
     \cup {ReplaceTransfer(c, i, [c.transfers[i] EXCEPT !.source_pk = PublicKeyBytes(k)]) :
            i \in DOMAIN c.transfers, k \in Accounts}
     \cup {ReplaceTransfer(c, i, [c.transfers[i] EXCEPT !.destination_pk = PublicKeyBytes(k)]) :
            i \in DOMAIN c.transfers, k \in Accounts}
     \cup {RemoveTransfer(c, i) : i \in DOMAIN c.transfers}
     \cup {[c EXCEPT !.transfers = Append(@, new_transfer(k, k, 1, 0))] : k \in Accounts}
     \cup {[c EXCEPT !.bounty_pk = b] :
            b \in {<<>>} \cup {PublicKeyBytes(k) : k \in Accounts}}
     \cup {[c EXCEPT !.bounty = b] : b \in {<<>>, <<1>>, <<2>>, <<3>>}}
    ) \ {c}

Tampered(m) == [commit |-> m, signatures |-> transaction[1].signatures]
SignedKeys(tx) == {tx.signatures[i].public_key : i \in DOMAIN tx.signatures}

(* C7 as stated: no transaction whose commitment was changed after signing *)
(* is accepted, and verify_signatures fails with the invalid-signature     *)
(* error whenever a transfer source of it has a signature in the list.     *)
C7_EveryMutationInvalid ==
    BuiltOk =>
        \A m \in MutatedCommitments(transaction[1].commit) :
            /\ verify_signatures(Tampered(m)) # Ok
            /\ (SourceKeys(m) \cap SignedKeys(transaction[1]) # {})
                   => verify_signatures(Tampered(m)) = Err(InvalidSignature)

(* C7 amended: a changed commitment under the unchanged signature list is  *)
(* rejected whenever it still has a transfer: with the invalid-signature   *)
(* error if the source of its first transfer has a signature in the list,  *)
(* with the missing-key error if not; with no transfer it is accepted.     *)
C7_MutationRejectedByFirstTransfer ==
    BuiltOk =>
        \A m \in MutatedCommitments(transaction[1].commit) :
            verify_signatures(Tampered(m)) =
                IF m.transfers = <<>> THEN Ok
                ELSE IF m.transfers[1].source_pk \in SignedKeys(transaction[1])
                THEN Err(InvalidSignature)
                ELSE Err(MissingKey)

C7_Witness ==
    /\ BuiltOk
    /\ NumTransfers = 2
    /\ commit.bounty = <<1>>
    /\ verify_signatures(Tampered([transaction[1].commit EXCEPT !.bounty = <<2>>]))
           = Err(InvalidSignature)
    /\ verify_signatures(Tampered([transaction[1].commit EXCEPT
                                       !.transfers[2].tokens = 2]))
           = Err(InvalidSignature)

----------------------------------------------------------------------------
(* Properties of verify_signatures on any transaction (checked under SpecV) *)

Verified == transaction # <<>> /\ verify_result # NotRun
HasEntry(tx, pk) == \E i \in DOMAIN tx.signatures : tx.signatures[i].public_key = pk

(* Entry i of the signature list is a well-formed signature of pk over the *)
(* commitment bytes of tx.                                                 *)
ValidEntry(tx, i, pk) ==
    /\ tx.signatures[i].public_key = pk
    /\ tx.signatures[i].payload.wellformed
    /\ \E k \in Accounts :
          /\ pk = PublicKeyBytes(k)
          /\ tx.signatures[i].payload.signer = k
    /\ tx.signatures[i].payload.msg = write_to_bytes(tx.commit)

(* C3: if some transfer's source has no entry in the signature list,       *)
(* verify_signatures fails with the missing-signature error, whatever the  *)
(* other transfers and signatures are.                                     *)
C3_MissingSignatureReported ==
    (Verified /\ \E i \in DOMAIN transaction[1].commit.transfers :
                     ~HasEntry(transaction[1], transaction[1].commit.transfers[i].source_pk))
        => verify_result = Err(MissingKey)

(* C8 as stated: a transaction is accepted only if every signature of its  *)
(* list belongs to the source of a transfer or to bounty_pk.               *)
C8_EverySignatureBound ==
    verify_result = Ok =>
        \A i \in DOMAIN transaction[1].signatures :
            transaction[1].signatures[i].public_key
                \in SourceKeys(transaction[1].commit) \cup {transaction[1].commit.bounty_pk}

(* C8 amended: a transaction is accepted only if the source of every       *)
(* transfer is the public_key of at least one signature of its list;       *)
(* signatures for keys unrelated to the commitment are ignored.            *)
C8_EverySourceBound ==
    verify_result = Ok =>
        \A i \in DOMAIN transaction[1].commit.transfers :
            HasEntry(transaction[1], transaction[1].commit.transfers[i].source_pk)

C8_Witness ==
    /\ verify_result = Ok
    /\ transaction[1].commit.transfers # <<>>
    /\ \E i \in DOMAIN transaction[1].signatures :
           transaction[1].signatures[i].public_key
               \notin SourceKeys(transaction[1].commit) \cup {transaction[1].commit.bounty_pk}

(* C9 as stated: when the source of every transfer has a present and valid *)
(* signature in the list, verify_signatures returns Ok, bounty or not.     *)
C9_SomeValidEntrySuffices ==
    (Verified /\ \A i \in DOMAIN transaction[1].commit.transfers :
                     \E j \in DOMAIN transaction[1].signatures :
                         ValidEntry(transaction[1], j,
                                    transaction[1].commit.transfers[i].source_pk))
        => verify_result = Ok

(* C9 amended: when, for the source of every transfer, the last entry of   *)
(* the signature list with that public_key is a valid signature over the   *)
(* commitment bytes, verify_signatures returns Ok, whether or not a bounty *)
(* is set and whether or not the list holds a signature for bounty_pk.     *)
C9_OnlyTransferSourcesMustSign ==
    (Verified /\ \A i \in DOMAIN transaction[1].commit.transfers :
                     \E j \in DOMAIN transaction[1].signatures :
                         /\ ValidEntry(transaction[1], j,
                                       transaction[1].commit.transfers[i].source_pk)
                         /\ \A l \in DOMAIN transaction[1].signatures :
                                transaction[1].signatures[l].public_key
                                    = transaction[1].signatures[j].public_key => l <= j)
        => verify_result = Ok

C9_Witness ==
    /\ verify_result = Ok
    /\ transaction[1].commit.transfers = <<>>
    /\ transaction[1].commit.bounty_pk # <<>>
    /\ transaction[1].signatures = <<>>

====
